---- MODULE Spec2Model ----
(***************************************************************************)
(* A model of the PDFEditor component (src/src/lib/PDFEditor.tsx): the     *)
(* React state of the component, its effects and event handlers, the DOM   *)
(* field controls it renders, and the asynchronous document load, page     *)
(* load and save operations, each suspended at the awaits of the source.   *)
(*                                                                         *)
(* Every action is one task of the UI event loop: an event handler or the  *)
(* continuation of a settled promise, followed by the re-renders and the   *)
(* effects that React 18 (createRoot, automatic batching) runs for the     *)
(* state it has set.                                                       *)
(***************************************************************************)
EXTENDS Integers, Sequences, FiniteSets, Bags, TLC

\* ------------------------------------------------------------------ bounds
\* how many times the host changes the src prop
MaxSrcChanges == 2
\* how many times the user acts: an edit of a field control, a click on a
\* toolbar button, a resize that changes the zoom level
MaxUserActions == 2

\* ------------------------------------------------------- program constants
\* PDFEditor.tsx:68-70, the scale factors in hundredths
zoomLevels == <<67, 75, 80, 90, 100, 110, 125, 150, 175, 200, 250, 300, 350, 400>>

\* PDFEditor.tsx:106, useState(6)
InitialZoomLevel == 6

\* PDFEditor.tsx:266, the fallback of `closestZoomLevel || 6`
FallbackZoomLevel == 6

\* JavaScript's undefined, as a value no field value equals
Undefined == "<undefined>"

\* pdfDoc / pages not set (useState() without an initial value)
NoDoc == 0

\* ------------------------------------------------- the documents (inputs)
\* the values of the src prop the host passes
Sources == {1, 2}

\* PDFFormRawField: a field descriptor as pdf.js reports it
RawField(name, type, page, editable, hidden, defaultValue, items) ==
    [name |-> name, type |-> type, page |-> page, editable |-> editable,
     hidden |-> hidden, defaultValue |-> defaultValue, items |-> items]

\* a field of the pdf-lib form model parsed from the document's bytes
FormField(name, kind, text, checked, selected) ==
    [name |-> name, kind |-> kind, text |-> text, checked |-> checked,
     selected |-> selected]

\* what getDocument(src) yields for each source: the page count, each page's
\* width at scale 1.0, the result of getFieldObjects() (one list of
\* descriptors per key, in key order) and the form pdf-lib parses from getData()
Documents ==
    [s \in Sources |->
       IF s = 1
       THEN [numPages |-> 2,
             widths |-> <<600, 800>>,
             fieldObjects |->
               << <<RawField("name", "text", 0, TRUE, FALSE, "", <<>>)>>,
                  <<RawField("agree", "checkbox", 1, TRUE, FALSE, "Off", <<>>)>>,
                  <<RawField("secret", "text", 0, TRUE, TRUE, "s", <<>>)>> >>,
             form |->
               << FormField("name", "PDFTextField", "", FALSE, ""),
                  FormField("agree", "PDFCheckBox", "", FALSE, ""),
                  FormField("secret", "PDFTextField", "s", FALSE, "") >>]
       ELSE [numPages |-> 1,
             widths |-> <<500>>,
             fieldObjects |->
               << <<RawField("status", "combobox", 0, TRUE, FALSE, "draft",
                             <<"draft", "approved">>)>>,
                  <<RawField("locked", "checkbox", 0, FALSE, FALSE, "On", <<>>)>> >>,
             form |->
               << FormField("status", "PDFDropdown", "", FALSE, "draft"),
                  FormField("locked", "PDFCheckBox", "", TRUE, "") >>]]

\* ------------------------------------------------------ the field controls
\* an <input> or <select> element of the overlay, PDFEditor.tsx:481-511.
\* type is the element's type property, value the text of an input,
\* selectedIndex the 1-based index of a select's selected option (0: none)
Control(page, name, tag, type, value, checked, options, selectedIndex) ==
    [page |-> page, name |-> name, tag |-> tag, type |-> type, value |-> value,
     checked |-> checked, options |-> options, selectedIndex |-> selectedIndex]

\* index of the first option equal to v, 0 when there is none
IndexOf(options, v) ==
    IF \E i \in 1..Len(options) : options[i] = v
    THEN CHOOSE i \in 1..Len(options) :
            options[i] = v /\ \A j \in 1..(i - 1) : options[j] # v
    ELSE 0

\* the element React creates for a descriptor: a select preselects the option
\* whose value is defaultValue (else the first one), an input shows
\* defaultValue; defaultValue never checks a checkbox
NewControl(pageNumber, field) ==
    IF field.type = "combobox"
    THEN Control(pageNumber, field.name, "select", "select-one", "", FALSE,
                 field.items,
                 IF IndexOf(field.items, field.defaultValue) # 0
                 THEN IndexOf(field.items, field.defaultValue)
                 ELSE IF Len(field.items) > 0 THEN 1 ELSE 0)
    ELSE Control(pageNumber, field.name, "input", field.type,
                 field.defaultValue, FALSE, <<>>, 0)

\* the DOM value property of an element
DomValue(c) ==
    IF c.tag = "select"
    THEN IF c.selectedIndex = 0 THEN "" ELSE c.options[c.selectedIndex]
    ELSE c.value

\* ---------------------------------------------------------- Field Reconciler
EmptyMap == [n \in {} |-> ""]

\* { ...result, [name]: value }
MergeFirstWins(result, name, value) ==
    [n \in (DOMAIN result) \cup {name} |->
        IF n \in DOMAIN result THEN result[n] ELSE value]

Merge(result, name, value) ==
    [n \in (DOMAIN result) \cup {name} |-> IF n = name THEN value ELSE result[n]]

\* the value getAllFieldsValue reads from one element
ControlValue(c) ==
    CASE c.type = "checkbox" -> IF c.checked THEN "On" ELSE "Off"
      [] c.type = "combobox" -> c.options[c.selectedIndex]
      [] OTHER -> DomValue(c)

RECURSIVE ReduceFields(_, _, _)
ReduceFields(elements, i, result) ==
    IF i > Len(elements) THEN result
    ELSE ReduceFields(elements, i + 1,
                      Merge(result, elements[i].name, ControlValue(elements[i])))

\* getAllFieldsValue over the elements querySelectorAll finds, in document order
getAllFieldsValue(elements) == ReduceFields(elements, 1, EmptyMap)

\* formFields[name]
Lookup(formFields, name) ==
    IF name \in DOMAIN formFields THEN formFields[name] ELSE Undefined

\* pdf-lib's mutations. setText(undefined) removes the text; select() asserts
\* that its argument is a string or an array and throws on undefined
setText(field, value) == [field EXCEPT !.text = value]
check(field) == [field EXCEPT !.checked = TRUE]
uncheck(field) == [field EXCEPT !.checked = FALSE]
select(field, value) == [field EXCEPT !.selected = value]
selectThrows(value) == value = Undefined

\* the body of the loop over form.getFields()
ApplyFieldMissingCheck(field, value) ==
    IF field.kind = "PDFTextField" THEN setText(field, value)
    ELSE IF field.kind = "PDFCheckBox" THEN check(field)
    ELSE IF field.kind = "PDFDropdown" THEN select(field, value)
    ELSE field

ApplyField(field, value) ==
    IF field.kind = "PDFTextField" THEN setText(field, value)
    ELSE IF field.kind = "PDFCheckBox"
         THEN IF value = "On" THEN check(field) ELSE uncheck(field)
    ELSE IF field.kind = "PDFDropdown" THEN select(field, value)
    ELSE IF field.kind = "PDFOptionList" THEN field
    ELSE IF field.kind = "PDFRadioGroup" THEN field
    ELSE field

FieldThrows(field, value) == field.kind = "PDFDropdown" /\ selectThrows(value)

\* the loop: the fields as they are when it ends, how many it got through
\* and whether it ended with an exception
RECURSIVE ApplyLoop(_, _, _)
ApplyLoop(fields, i, formFields) ==
    IF i > Len(fields) THEN [fields |-> fields, done |-> Len(fields), threw |-> FALSE]
    ELSE LET value == Lookup(formFields, fields[i].name) IN
         IF FieldThrows(fields[i], value)
         THEN [fields |-> fields, done |-> i - 1, threw |-> TRUE]
         ELSE ApplyLoop([fields EXCEPT ![i] = ApplyField(fields[i], value)],
                        i + 1, formFields)

apply(formModel, valueMap) == ApplyLoop(formModel, 1, valueMap)

\* ----------------------------------------------------------- Zoom Controller
Abs(x) == IF x < 0 THEN -x ELSE x

\* Math.abs(scaleValue - zoomLevels[i]) for scaleValue = divWidth / maxPageWidth,
\* in units of 1 / (100 * maxPageWidth)
Difference(divWidth, maxPageWidth, i) ==
    Abs(100 * divWidth - zoomLevels[i + 1] * maxPageWidth)

\* the scan; minDifference -1 is Infinity, closestZoomLevel -1 is undefined
RECURSIVE ClosestScan(_, _, _, _, _)
ClosestScan(divWidth, maxPageWidth, i, minDifference, closestZoomLevel) ==
    IF i >= Len(zoomLevels) THEN closestZoomLevel
    ELSE LET difference == Difference(divWidth, maxPageWidth, i) IN
         IF minDifference = -1 \/ difference < minDifference
         THEN ClosestScan(divWidth, maxPageWidth, i + 1, difference, i)
         ELSE ClosestScan(divWidth, maxPageWidth, i + 1, minDifference,
                          closestZoomLevel)

\* closestZoomLevel || 6
OrFallback(closestZoomLevel) ==
    IF closestZoomLevel = -1 \/ closestZoomLevel = 0
    THEN FallbackZoomLevel ELSE closestZoomLevel

\* the zoom index after resetViewScale(divWidth); divWidth 0 stands for an
\* undefined or zero offsetWidth
resetViewScale(divWidth, maxPageWidth, zoomLevel) ==
    IF divWidth # 0 /\ maxPageWidth # 0
    THEN OrFallback(ClosestScan(divWidth, maxPageWidth, 0, -1, -1))
    ELSE zoomLevel

\* ------------------------------------------------------ Page/Field Loader
\* rawFields.filter(...) of one group for the page numbered pageNumber
FilterGroupKeepsHidden(rawFields, pageNumber) ==
    LET Keep(rawField) == rawField.editable /\ rawField.page = pageNumber - 1
    IN SelectSeq(rawFields, Keep)

FilterGroup(rawFields, pageNumber) ==
    LET Keep(rawField) == rawField.editable /\ ~rawField.hidden
                          /\ rawField.page = pageNumber - 1
    IN SelectSeq(rawFields, Keep)

\* Object.values(rawFormFields).flatMap(...)
RECURSIVE FlatMapFields(_, _, _)
FlatMapFields(groups, g, pageNumber) ==
    IF g > Len(groups) THEN <<>>
    ELSE FilterGroup(groups[g], pageNumber) \o FlatMapFields(groups, g + 1, pageNumber)

\* the loop over the pages 1..numPages, from page i on: what rawPages holds
\* when it ends (the proxy of an entry is told by its pageNumber)
RECURSIVE LoadPages(_, _, _, _)
LoadPages(rawFormFields, numPages, i, rawPages) ==
    IF i > numPages THEN rawPages
    ELSE LoadPages(rawFormFields, numPages, i + 1,
                   Append(rawPages, [pageNumber |-> i,
                                     fields |-> FlatMapFields(rawFormFields, 1, i)]))

\* the PDFPageProxy getPage(i) resolves to
PageProxy(doc, docSrc, i) ==
    [doc |-> doc, pageNumber |-> i, width |-> Documents[docSrc].widths[i]]

\* { proxy, fields } for page i of the handle doc loaded from docSrc
PageEntry(doc, docSrc, i) ==
    [proxy |-> PageProxy(doc, docSrc, i),
     fields |-> FlatMapFields(Documents[docSrc].fieldObjects, 1, i)]

\* ------------------------------------------------------------- the state
VARIABLES
    mounted,          \* the component is mounted
    src,              \* the src prop
    loads,            \* the getDocument calls so far: [src, status]; the index
                      \* of a call is the Document Handle it resolves to
    destroyed,        \* the handles destroy() was called on
    pdfDoc,           \* useState: the current Document Handle, or NoDoc
    docReady,         \* useState
    pages,            \* useState: the published Page Entries (<<>>: undefined)
    pagesReady,       \* useState
    isSaving,         \* useState
    zoomLevel,        \* useState
    maxPageWidth,     \* useState
    cleanupDoc,       \* pdfDoc as the cleanup of the [src] effect closes over it
    cbMaxPageWidth,   \* maxPageWidth as the renderPages callback closes over it
    pageLoads,        \* the loadFormFieldsAndPages calls in flight
    saves,            \* the onSaveAs calls in flight
    controls,         \* the live field controls, in document order
    formFields,       \* ref.current.formFields, as useImperativeHandle set it
    lastPass,         \* what the last call of renderPages did
    published,        \* which call of loadFormFieldsAndPages set pages last
    used,             \* how much of each bound the run has used
    call              \* a single call of a pure function: arguments and result

vars == <<mounted, src, loads, destroyed, pdfDoc, docReady, pages, pagesReady,
          isSaving, zoomLevel, maxPageWidth, cleanupDoc, cbMaxPageWidth,
          pageLoads, saves, controls, formFields, lastPass, published, used, call>>

\* the component's own state, without the history of calls
machine == <<mounted, src, loads, destroyed, pdfDoc, docReady, pages, pagesReady,
             isSaving, zoomLevel, maxPageWidth, cleanupDoc, cbMaxPageWidth,
             pageLoads, saves, controls, formFields, lastPass, published,
             used>>

NoPass == [zoomLevel |-> -1, queried |-> {}, rendered |-> {}, destroyedPages |-> {}]
NoPublish == [doc |-> NoDoc, started |-> 0, at |-> 0]
NoCall == [op |-> "none"]

Remove(seq, k) == SubSeq(seq, 1, k - 1) \o SubSeq(seq, k + 1, Len(seq))

\* the calls in flight are a bag: two calls at the same point are alike
Started(inFlight, load) == inFlight (+) SetToBag({load})
Ended(inFlight, load) == inFlight (-) SetToBag({load})

\* ------------------------------------------------------------- rendering
\* the render guard `if (!docReady || !pagesReady) return null`
Shown(isMounted, isDocReady, isPagesReady) == isMounted /\ isDocReady /\ isPagesReady

\* pages.filter((page) => !page.proxy?.destroyed)
NotDestroyed(pgs, gone) ==
    LET Live(page) == page.proxy.doc \notin gone IN SelectSeq(pgs, Live)

\* the elements of one page container, reusing the element of the same page,
\* name and tag when there is one (React keeps a keyed element and its value)
RECURSIVE PageControls(_, _, _, _)
PageControls(pageNumber, fields, f, old) ==
    IF f > Len(fields) THEN <<>>
    ELSE LET fresh == NewControl(pageNumber, fields[f])
             same == {k \in 1..Len(old) : old[k].page = pageNumber
                                           /\ old[k].name = fresh.name
                                           /\ old[k].tag = fresh.tag}
             element == IF same = {} THEN fresh
                        ELSE [old[CHOOSE k \in same : \A j \in same : k <= j]
                                EXCEPT !.type = fresh.type, !.options = fresh.options]
         IN <<element>> \o PageControls(pageNumber, fields, f + 1, old)

RECURSIVE AllControls(_, _, _)
AllControls(pgs, p, old) ==
    IF p > Len(pgs) THEN <<>>
    ELSE PageControls(pgs[p].proxy.pageNumber, pgs[p].fields, 1, old)
         \o AllControls(pgs, p + 1, old)

\* the field controls after a render
RenderControls(shown, pgs, gone, old) ==
    IF shown THEN AllControls(NotDestroyed(pgs, gone), 1, old) ELSE <<>>

\* useImperativeHandle(ref, () => ({ formFields: getAllFieldsValue() })),
\* run at the commit of a render over the elements of that render
Expose(elements) == getAllFieldsValue(elements)

Max(a, b) == IF a > b THEN a ELSE b

RECURSIVE MaxWidth(_, _)
MaxWidth(pgs, p) ==
    IF p > Len(pgs) THEN 0 ELSE Max(pgs[p].proxy.width, MaxWidth(pgs, p + 1))

\* pages?.forEach((page) => ...) of renderPages: every page's viewport is
\* queried; page.proxy.render runs for the pages whose canvas is in the DOM.
\* destroyedPages are the pages of the pass that were destroyed when it ran
renderPages(pgs, level, shown, gone) ==
    LET all == {pgs[p].proxy : p \in 1..Len(pgs)}
        \* divRef.current?.querySelector("canvas#page_canvas_" + pageNumber):
        \* the render guard and the destroyed filter decide what is in the DOM
        hasCanvas(proxy) == shown /\ proxy.doc \notin gone
    IN [zoomLevel |-> level,
        queried |-> all,
        rendered |-> {proxy \in all : hasCanvas(proxy)},
        destroyedPages |-> {proxy \in all : proxy.doc \in gone}]

\* if (maxPageWidth === 0) setMaxPageWidth(maxPageActualWidth), with the
\* maxPageWidth of the closure
CaptureWidth(pgs, closureWidth, current) ==
    IF closureWidth = 0 THEN MaxWidth(pgs, 1) ELSE current

\* ------------------------------------------------------------------ Init
\* the component after its first render and effects: the [src] effect has
\* called getDocument(src), nothing is loaded, the render guard shows nothing
InitMachine ==
    /\ mounted = TRUE
    /\ src = 1
    /\ loads = <<[src |-> 1, status |-> "pending"]>>
    /\ destroyed = {}
    /\ pdfDoc = NoDoc
    /\ docReady = FALSE
    /\ pages = <<>>
    /\ pagesReady = FALSE
    /\ isSaving = FALSE
    /\ zoomLevel = InitialZoomLevel
    /\ maxPageWidth = 0
    /\ cleanupDoc = NoDoc
    /\ cbMaxPageWidth = 0
    /\ pageLoads = EmptyBag
    /\ saves = <<>>
    /\ controls = <<>>
    /\ formFields = EmptyMap
    /\ lastPass = NoPass
    /\ published = NoPublish
    /\ used = [srcChanges |-> 0, userActions |-> 0]

Init == InitMachine /\ call = NoCall

\* a new call of loadFormFieldsAndPages on doc, suspended at getFieldObjects();
\* started is the number of getDocument calls made when it starts
NewPageLoad(doc, generation) ==
    [doc |-> doc, started |-> generation, awaiting |-> 0, rawPages |-> <<>>]

\* the DOM and the exposed ref after a commit of a render
Commit(isDocReady, isPagesReady, pgs, gone) ==
    /\ controls' = RenderControls(Shown(TRUE, isDocReady, isPagesReady), pgs, gone,
                                  controls)
    /\ formFields' = Expose(controls')

\* --------------------------------------------------- the [src] effect
\* the cleanup of the effect: it closes over the pdfDoc of the render in
\* which the effect last ran
CleanupTarget(closureDoc, currentDoc) == closureDoc

\* the host passes another src: the cleanup of the previous effect, then
\* loadDocument up to its await, then the [docReady] effect if docReady fell
SourceChange(s) ==
    /\ mounted
    /\ used.srcChanges < MaxSrcChanges
    /\ s # src
    /\ LET target == CleanupTarget(cleanupDoc, pdfDoc)
           doc == IF target # NoDoc THEN NoDoc ELSE pdfDoc
       IN /\ src' = s
          /\ destroyed' = IF target # NoDoc THEN destroyed \cup {target} ELSE destroyed
          /\ pdfDoc' = doc
          /\ docReady' = FALSE
          /\ cleanupDoc' = pdfDoc
          /\ loads' = Append(loads, [src |-> s, status |-> "pending"])
          /\ pageLoads' = IF docReady /\ doc # NoDoc
                          THEN Started(pageLoads, NewPageLoad(doc, Len(loads')))
                          ELSE pageLoads
          /\ Commit(FALSE, pagesReady, pages, destroyed')
    /\ used' = [used EXCEPT !.srcChanges = @ + 1]
    /\ UNCHANGED <<mounted, pages, pagesReady, isSaving, zoomLevel, maxPageWidth,
                   cbMaxPageWidth, saves, lastPass, published, call>>

\* getDocument(src).promise resolves: setPdfDoc, setDocReady(true) in one
\* batch, then the [docReady] effect if docReady rose
DocLoadResolve(h) ==
    /\ mounted
    /\ h \in 1..Len(loads)
    /\ loads[h].status = "pending"
    /\ loads' = [loads EXCEPT ![h].status = "resolved"]
    /\ pdfDoc' = h
    /\ docReady' = TRUE
    /\ pageLoads' = IF ~docReady /\ pdfDoc' # NoDoc
                    THEN Started(pageLoads, NewPageLoad(pdfDoc', Len(loads)))
                    ELSE pageLoads
    /\ Commit(TRUE, pagesReady, pages, destroyed)
    /\ UNCHANGED <<mounted, src, destroyed, pages, pagesReady, isSaving, zoomLevel,
                   maxPageWidth, cleanupDoc, cbMaxPageWidth, saves, lastPass, published,
                   used, call>>

\* getDocument(src).promise rejects: loadDocument ends with the exception
DocLoadReject(h) ==
    /\ mounted
    /\ h \in 1..Len(loads)
    /\ loads[h].status = "pending"
    /\ loads' = [loads EXCEPT ![h].status = "rejected"]
    /\ UNCHANGED <<mounted, src, destroyed, pdfDoc, docReady, pages, pagesReady,
                   isSaving, zoomLevel, maxPageWidth, cleanupDoc, cbMaxPageWidth,
                   pageLoads, saves, controls, formFields, lastPass, published, used,
                   call>>

\* ------------------------------------------- the [docReady] effect's load
\* setPages(rawPages); setPagesReady(true): the render recreates renderPages
\* (it closes over the maxPageWidth of that render) and the render effect
\* runs a pass at the current zoom level
Publish(load, rawPages) ==
    /\ pages' = rawPages
    /\ published' = [doc |-> load.doc, started |-> load.started, at |-> Len(loads)]
    /\ pagesReady' = TRUE
    /\ cbMaxPageWidth' = maxPageWidth
    /\ Commit(docReady, TRUE, rawPages, destroyed)
    /\ lastPass' = renderPages(rawPages, zoomLevel, Shown(TRUE, docReady, TRUE),
                               destroyed)
    /\ maxPageWidth' = CaptureWidth(rawPages, cbMaxPageWidth', maxPageWidth)

\* pdfDoc.getFieldObjects() resolves: setPagesReady(false), then getPage(1)
PageLoadFields(load) ==
    /\ mounted
    /\ BagIn(load, pageLoads)
    /\ load.awaiting = 0
    /\ load.doc \notin destroyed
    /\ IF Documents[loads[load.doc].src].numPages = 0
       THEN /\ pageLoads' = Ended(pageLoads, load)
            /\ Publish(load, <<>>)
       ELSE /\ pageLoads' = Started(Ended(pageLoads, load), [load EXCEPT !.awaiting = 1])
            /\ pagesReady' = FALSE
            /\ Commit(docReady, FALSE, pages, destroyed)
            /\ UNCHANGED <<pages, cbMaxPageWidth, lastPass, published, maxPageWidth>>
    /\ UNCHANGED <<mounted, src, loads, destroyed, pdfDoc, docReady, isSaving,
                   zoomLevel, cleanupDoc, saves, used, call>>

\* pdfDoc.getPage(i) resolves: push the entry, then the next page or publish
PageLoadPage(load) ==
    /\ mounted
    /\ BagIn(load, pageLoads)
    /\ load.awaiting > 0
    /\ load.doc \notin destroyed
    /\ LET docSrc == loads[load.doc].src
           rawPages == Append(load.rawPages, PageEntry(load.doc, docSrc, load.awaiting))
       IN IF load.awaiting < Documents[docSrc].numPages
          THEN /\ pageLoads' = Started(Ended(pageLoads, load),
                                       [load EXCEPT !.awaiting = @ + 1,
                                                    !.rawPages = rawPages])
               /\ UNCHANGED <<pages, pagesReady, cbMaxPageWidth, lastPass, published,
                              maxPageWidth, controls, formFields>>
          ELSE /\ pageLoads' = Ended(pageLoads, load)
               /\ Publish(load, rawPages)
    /\ UNCHANGED <<mounted, src, loads, destroyed, pdfDoc, docReady, isSaving,
                   zoomLevel, cleanupDoc, saves, used, call>>

\* getFieldObjects() or getPage(i) rejects (always so once the handle is
\* destroyed): loadFormFieldsAndPages ends with the exception
PageLoadReject(load) ==
    /\ mounted
    /\ BagIn(load, pageLoads)
    /\ pageLoads' = Ended(pageLoads, load)
    /\ UNCHANGED <<mounted, src, loads, destroyed, pdfDoc, docReady, pages,
                   pagesReady, isSaving, zoomLevel, maxPageWidth, cleanupDoc,
                   cbMaxPageWidth, saves, controls, formFields, lastPass, published, used, call>>

\* ------------------------------------------------------------------ zoom
\* a render at a new zoom level: the render effect runs a pass when pagesReady
ZoomToWithoutPass(level) ==
    /\ zoomLevel' = level
    /\ IF level # zoomLevel
       THEN /\ Commit(docReady, pagesReady, pages, destroyed)
            /\ UNCHANGED <<lastPass, maxPageWidth>>
       ELSE UNCHANGED <<controls, formFields, lastPass, maxPageWidth>>

ZoomTo(level) ==
    /\ zoomLevel' = level
    /\ IF level # zoomLevel
       THEN /\ Commit(docReady, pagesReady, pages, destroyed)
            /\ IF pagesReady
               THEN /\ lastPass' = renderPages(pages, level,
                                               Shown(TRUE, docReady, pagesReady),
                                               destroyed)
                    /\ maxPageWidth' = CaptureWidth(pages, cbMaxPageWidth, maxPageWidth)
               ELSE UNCHANGED <<lastPass, maxPageWidth>>
       ELSE UNCHANGED <<controls, formFields, lastPass, maxPageWidth>>

\* the Zoom In and Zoom Out buttons, disabled at the last and first level
ZoomInDisabledNever(level) == FALSE

ZoomInDisabled(level) == level >= Len(zoomLevels) - 1

ZoomOutDisabled(level) == level <= 0

ZoomIn ==
    /\ Shown(mounted, docReady, pagesReady)
    /\ ~ZoomInDisabled(zoomLevel)
    /\ used.userActions < MaxUserActions
    /\ ZoomTo(zoomLevel + 1)
    /\ used' = [used EXCEPT !.userActions = @ + 1]
    /\ UNCHANGED <<mounted, src, loads, destroyed, pdfDoc, docReady, pages,
                   pagesReady, isSaving, cleanupDoc, cbMaxPageWidth, pageLoads,
                   saves, published, call>>

ZoomOut ==
    /\ Shown(mounted, docReady, pagesReady)
    /\ ~ZoomOutDisabled(zoomLevel)
    /\ used.userActions < MaxUserActions
    /\ ZoomTo(zoomLevel - 1)
    /\ used' = [used EXCEPT !.userActions = @ + 1]
    /\ UNCHANGED <<mounted, src, loads, destroyed, pdfDoc, docReady, pages,
                   pagesReady, isSaving, cleanupDoc, cbMaxPageWidth, pageLoads,
                   saves, published, call>>

\* the widths the container takes in a resize
DivWidths == {300, 1200}

\* a resize event: divRef.current?.offsetWidth is undefined while nothing
\* is shown
Resize(offsetWidth) ==
    /\ mounted
    /\ used.userActions < MaxUserActions
    /\ LET divWidth == IF Shown(mounted, docReady, pagesReady) THEN offsetWidth ELSE 0
       IN /\ resetViewScale(divWidth, maxPageWidth, zoomLevel) # zoomLevel
          /\ ZoomTo(resetViewScale(divWidth, maxPageWidth, zoomLevel))
    /\ used' = [used EXCEPT !.userActions = @ + 1]
    /\ UNCHANGED <<mounted, src, loads, destroyed, pdfDoc, docReady, pages,
                   pagesReady, isSaving, cleanupDoc, cbMaxPageWidth, pageLoads,
                   saves, published, call>>

\* ------------------------------------------------------------- the user
\* what the user types into a text control
TextValues == {"", "Alice"}

\* the user edits the k-th control: types a text, toggles a checkbox or picks
\* an option. The controls are uncontrolled: no state is set, nothing renders
Edit(k) ==
    /\ Shown(mounted, docReady, pagesReady)
    /\ k \in 1..Len(controls)
    /\ used.userActions < MaxUserActions
    /\ used' = [used EXCEPT !.userActions = @ + 1]
    /\ \/ /\ controls[k].tag = "input" /\ controls[k].type # "checkbox"
          /\ \E text \in TextValues \ {controls[k].value} :
                controls' = [controls EXCEPT ![k].value = text]
       \/ /\ controls[k].tag = "input" /\ controls[k].type = "checkbox"
          /\ controls' = [controls EXCEPT ![k].checked = ~@]
       \/ /\ controls[k].tag = "select"
          /\ \E option \in (1..Len(controls[k].options)) \ {controls[k].selectedIndex} :
                controls' = [controls EXCEPT ![k].selectedIndex = option]
    /\ UNCHANGED <<mounted, src, loads, destroyed, pdfDoc, docReady, pages,
                   pagesReady, isSaving, zoomLevel, maxPageWidth, cleanupDoc,
                   cbMaxPageWidth, pageLoads, saves, formFields, lastPass, published, call>>

\* ------------------------------------------------------------------ save
\* the Save as button is disabled={isSaving}
SaveDisabledNever(saving) == FALSE

SaveDisabled(saving) == saving

\* a click on Save as: setIsSaving(true), then pdfDoc?.getData()
SaveClick ==
    /\ Shown(mounted, docReady, pagesReady)
    /\ ~SaveDisabled(isSaving)
    /\ used.userActions < MaxUserActions
    /\ used' = [used EXCEPT !.userActions = @ + 1]
    /\ isSaving' = TRUE
    /\ saves' = Append(saves, [doc |-> pdfDoc, awaiting |-> "getData",
                                form |-> <<>>, formFields |-> EmptyMap])
    /\ Commit(docReady, pagesReady, pages, destroyed)
    /\ UNCHANGED <<mounted, src, loads, destroyed, pdfDoc, docReady, pages,
                   pagesReady, zoomLevel, maxPageWidth, cleanupDoc, cbMaxPageWidth,
                   pageLoads, lastPass, published, call>>

\* setIsSaving(false) at the end of onSaveAs
SaveEnds(k) ==
    /\ saves' = Remove(saves, k)
    /\ isSaving' = FALSE
    /\ Commit(docReady, pagesReady, pages, destroyed)

\* getData() resolves (undefined without a pdfDoc): PDFDocument.load(originData)
SaveGetData(k) ==
    /\ mounted
    /\ k \in 1..Len(saves)
    /\ saves[k].awaiting = "getData"
    /\ saves[k].doc \notin destroyed
    /\ IF saves[k].doc = NoDoc
       THEN SaveEnds(k)
       ELSE /\ saves' = [saves EXCEPT ![k].awaiting = "load"]
            /\ UNCHANGED <<isSaving, controls, formFields>>
    /\ UNCHANGED <<mounted, src, loads, destroyed, pdfDoc, docReady, pages,
                   pagesReady, zoomLevel, maxPageWidth, cleanupDoc, cbMaxPageWidth,
                   pageLoads, lastPass, published, used, call>>

\* PDFDocument.load resolves: snapshot the controls and run the field loop on
\* the form parsed from the bytes, then libDoc.save(); an exception of the
\* loop ends onSaveAs without setIsSaving(false)
SaveLoad(k) ==
    /\ mounted
    /\ k \in 1..Len(saves)
    /\ saves[k].awaiting = "load"
    /\ LET snapshot == getAllFieldsValue(controls)
           applied == apply(Documents[loads[saves[k].doc].src].form, snapshot)
       IN saves' = IF applied.threw
                   THEN Remove(saves, k)
                   ELSE [saves EXCEPT ![k].awaiting = "save",
                                      ![k].form = applied.fields,
                                      ![k].formFields = snapshot]
    /\ UNCHANGED <<mounted, src, loads, destroyed, pdfDoc, docReady, pages,
                   pagesReady, isSaving, zoomLevel, maxPageWidth, cleanupDoc,
                   cbMaxPageWidth, pageLoads, controls, formFields, lastPass, published,
                   used, call>>

\* what onSaveAs does with savedData: onSave(savedData, formFields) when the
\* host supplied the prop, else saveFileUsingFilePicker(savedData, fileName),
\* which calls window.showSaveFilePicker when there is one and downloadPDF
\* when there is none. The calls made, each with what it is given
DeliverAlsoToPlatform(hasOnSave, hasPicker, savedData, snapshot) ==
    (IF hasOnSave
     THEN {[sink |-> "onSave", pdfBytes |-> savedData, formFields |-> snapshot]}
     ELSE {})
    \cup {[sink |-> IF hasPicker THEN "showSaveFilePicker" ELSE "downloadPDF",
           pdfBytes |-> savedData, formFields |-> EmptyMap]}

Deliver(hasOnSave, hasPicker, savedData, snapshot) ==
    IF hasOnSave
    THEN {[sink |-> "onSave", pdfBytes |-> savedData, formFields |-> snapshot]}
    ELSE IF hasPicker
    THEN {[sink |-> "showSaveFilePicker", pdfBytes |-> savedData,
           formFields |-> EmptyMap]}
    ELSE {[sink |-> "downloadPDF", pdfBytes |-> savedData, formFields |-> EmptyMap]}

\* libDoc.save() resolves with savedData, the bytes of the form as the loop
\* left it. onSave returns or throws; downloadPDF is synchronous;
\* showSaveFilePicker is awaited
SaveSerialize(k) ==
    /\ mounted
    /\ k \in 1..Len(saves)
    /\ saves[k].awaiting = "save"
    /\ \E hasOnSave, hasPicker, sinkThrows \in BOOLEAN :
          LET calls == Deliver(hasOnSave, hasPicker, saves[k].form,
                               saves[k].formFields)
          IN IF \E c \in calls : c.sink = "showSaveFilePicker"
             THEN /\ saves' = [saves EXCEPT ![k].awaiting = "picker"]
                  /\ UNCHANGED <<isSaving, controls, formFields>>
             ELSE IF sinkThrows /\ \E c \in calls : c.sink = "onSave"
             THEN /\ saves' = Remove(saves, k)
                  /\ UNCHANGED <<isSaving, controls, formFields>>
             ELSE SaveEnds(k)
    /\ UNCHANGED <<mounted, src, loads, destroyed, pdfDoc, docReady, pages,
                   pagesReady, zoomLevel, maxPageWidth, cleanupDoc, cbMaxPageWidth,
                   pageLoads, lastPass, published, used, call>>

\* saveFileUsingFilePicker settles; its own errors are caught and logged
SavePicker(k) ==
    /\ mounted
    /\ k \in 1..Len(saves)
    /\ saves[k].awaiting = "picker"
    /\ SaveEnds(k)
    /\ UNCHANGED <<mounted, src, loads, destroyed, pdfDoc, docReady, pages,
                   pagesReady, zoomLevel, maxPageWidth, cleanupDoc, cbMaxPageWidth,
                   pageLoads, lastPass, published, used, call>>

\* getData(), PDFDocument.load or libDoc.save() rejects: onSaveAs ends with
\* the exception, isSaving stays as it is
SaveReject(k) ==
    /\ mounted
    /\ k \in 1..Len(saves)
    /\ saves[k].awaiting \in {"getData", "load", "save"}
    /\ saves' = Remove(saves, k)
    /\ UNCHANGED <<mounted, src, loads, destroyed, pdfDoc, docReady, pages,
                   pagesReady, isSaving, zoomLevel, maxPageWidth, cleanupDoc,
                   cbMaxPageWidth, pageLoads, controls, formFields, lastPass, published,
                   used, call>>

\* --------------------------------------------------------------- teardown
\* the component unmounts: the cleanup of the [src] effect runs; the state of
\* the instance is gone, React ignores what pending continuations set
Unmount ==
    /\ mounted
    /\ mounted' = FALSE
    /\ LET target == CleanupTarget(cleanupDoc, pdfDoc)
       IN destroyed' = IF target # NoDoc THEN destroyed \cup {target} ELSE destroyed
    /\ pdfDoc' = NoDoc
    /\ docReady' = FALSE
    /\ pages' = <<>>
    /\ pagesReady' = FALSE
    /\ isSaving' = FALSE
    /\ zoomLevel' = InitialZoomLevel
    /\ maxPageWidth' = 0
    /\ cleanupDoc' = NoDoc
    /\ cbMaxPageWidth' = 0
    /\ pageLoads' = EmptyBag
    /\ saves' = <<>>
    /\ controls' = <<>>
    /\ formFields' = EmptyMap
    /\ lastPass' = NoPass
    /\ published' = NoPublish
    /\ UNCHANGED <<src, loads, used, call>>

Next ==
    \/ \E s \in Sources : SourceChange(s)
    \/ \E h \in 1..Len(loads) : DocLoadResolve(h)
    \/ \E h \in 1..Len(loads) : DocLoadReject(h)
    \/ \E load \in BagToSet(pageLoads) : PageLoadFields(load)
    \/ \E load \in BagToSet(pageLoads) : PageLoadPage(load)
    \/ \E load \in BagToSet(pageLoads) : PageLoadReject(load)
    \/ ZoomIn
    \/ ZoomOut
    \/ \E offsetWidth \in DivWidths : Resize(offsetWidth)
    \/ \E k \in 1..Len(controls) : Edit(k)
    \/ SaveClick
    \/ \E k \in 1..Len(saves) : SaveGetData(k)
    \/ \E k \in 1..Len(saves) : SaveLoad(k)
    \/ \E k \in 1..Len(saves) : SaveSerialize(k)
    \/ \E k \in 1..Len(saves) : SavePicker(k)
    \/ \E k \in 1..Len(saves) : SaveReject(k)
    \/ Unmount

Spec == Init /\ [][Next]_vars

\* ------------------------------------------------------------ the claims
\* the number of the latest getDocument call: the load of the newest source
Newest == Len(loads)

\* C1: once the load of the newest source has resolved, the current Document
\* Handle is the one loaded from the newest source, whenever an earlier load
\* resolves
C1_NewestLoadWins ==
    (mounted /\ loads[Newest].status = "resolved") => pdfDoc = Newest

\* C2: a page/field load started before a source change superseded its
\* Document Handle never publishes its Page Entries: the load that set pages
\* was started after the latest source change
C2_StaleLoadDiscarded ==
    published # NoPublish => published.started = published.at

\* C3: on every source change and on teardown the Document Handle current at
\* that moment is released
C3_ReleasedWhenSuperseded ==
    [][((src' # src \/ (mounted /\ ~mounted')) /\ pdfDoc # NoDoc)
          => pdfDoc \in destroyed']_vars

\* C4: a render pass queries the viewport of no destroyed page and renders none
C4_PassSkipsDestroyed ==
    \A proxy \in lastPass.destroyedPages :
        proxy \notin lastPass.queried /\ proxy \notin lastPass.rendered

\* C5: at most one save is in flight, and only while isSaving is set: a click
\* while a save is in flight starts nothing
C5_OneSaveInFlight ==
    /\ Len(saves) <= 1
    /\ Len(saves) = 1 => isSaving

\* a save is in flight while the toolbar is shown and the user could click again
C5_Witness ==
    /\ Len(saves) = 1
    /\ isSaving
    /\ Shown(mounted, docReady, pagesReady)
    /\ used.userActions < MaxUserActions

\* C6: what the host reads from ref.current.formFields is the snapshot of the
\* live controls at the moment of the read
C6_AccessorIsLive ==
    mounted => formFields = getAllFieldsValue(controls)

\* C14: a save attempt that failed leaves the component able to retry: once
\* no onSaveAs call is in flight, the busy flag is false again, so the
\* Save as button can start another attempt
C14_FailedSaveCanRetry ==
    (mounted /\ Len(saves) = 0) => ~isSaving

\* C15: once the document load of the current source is rejected, the viewer
\* is not shown as ready for as long as the source stays the same
C15_RejectedStaysNotReady ==
    (mounted /\ loads[Newest].status = "rejected") => ~(docReady /\ pagesReady)

\* C16: the zoom index the component starts with, and keeps until the first
\* zoom action or resize, is the index of the scale factor 1.0
C16_InitialIndexIsUnitScale ==
    used.userActions = 0 => zoomLevels[zoomLevel + 1] = 100

\* C17: no page/field load is started or in flight while the document load of
\* the current source is pending
C17_PagesAfterDocument ==
    (mounted /\ loads[Newest].status = "pending") => pageLoads = EmptyBag

\* the page/field loads in flight that were started on the current Document
\* Handle since the latest source change: no load was started after such a one
LatestInFlight(inFlight, doc, generation) ==
    {load \in BagToSet(inFlight) : load.doc = doc /\ load.started = generation}

\* C18: no render pass executes while the most recently started page/field
\* load is in flight
C18_NoPassWhileLoading ==
    [][lastPass' # lastPass => LatestInFlight(pageLoads', pdfDoc', Len(loads')) = {}]_vars

\* C19: once a page/field load has resolved, and after every change of the
\* zoom index while pages are ready, the last render pass executed is one at
\* the current zoom index over the published Page Entries
C19_PassIsCurrent ==
    (mounted /\ pagesReady) =>
        /\ lastPass.zoomLevel = zoomLevel
        /\ lastPass.queried = {pages[p].proxy : p \in 1..Len(pages)}

\* the viewer is shown, the user has changed the zoom index, and the last pass
\* rendered pages at that index
C19_Witness ==
    /\ Shown(mounted, docReady, pagesReady)
    /\ zoomLevel # InitialZoomLevel
    /\ lastPass.zoomLevel = zoomLevel
    /\ lastPass.rendered # {}

\* C20: after the first render pass of every document load, a reload from a
\* new source included, maxPageWidth is the largest width at scale 1.0 of the
\* pages of that load, and no later pass changes it
C20_WidthCapturedPerLoad ==
    (mounted /\ pagesReady) => maxPageWidth = MaxWidth(pages, 1)

\* C21: the zoom index changes only when nothing is loading: not while the
\* document load of the current source is pending, not while the page/field
\* load started last is in flight; and a change of the zoom index leaves the
\* published Page Entries as they are
C21_ZoomOnlyWhenLoaded ==
    [][(mounted' /\ zoomLevel' # zoomLevel) =>
          /\ loads[Newest].status # "pending"
          /\ LatestInFlight(pageLoads, pdfDoc, Len(loads)) = {}
          /\ pages' = pages]_vars

\* the Page Entries of all the pages 1..N of the handle doc loaded from docSrc
CompleteEntries(doc, docSrc) ==
    [i \in 1..Documents[docSrc].numPages |-> PageEntry(doc, docSrc, i)]

\* C22: the published Page Entries are absent or the complete list of the
\* pages of one document, never a part of it, and when the document load of
\* the current source or the page/field load started last fails, the overlay
\* is not shown as ready
C22_AllOrNothing ==
    [][/\ \/ pages' = <<>>
          \/ \E h \in 1..Len(loads') : pages' = CompleteEntries(h, loads'[h].src)
       /\ \A load \in LatestInFlight(pageLoads, pdfDoc, Len(loads)) :
             PageLoadReject(load) => ~Shown(mounted', docReady', pagesReady')
       /\ DocLoadReject(Newest) => ~Shown(mounted', docReady', pagesReady')]_vars

\* C24: whenever the viewer is shown as ready, the published Page Entries are
\* those of the current Document Handle, the one a save reads the bytes of
C24_PagesOfCurrentHandle ==
    Shown(mounted, docReady, pagesReady) =>
        \A p \in 1..Len(pages) : pages[p].proxy.doc = pdfDoc

\* ------------------------------------------- apply, called on its own
\* the largest form model and the most controls of a single call
MaxFields == 2
MaxControls == 3

FieldNames == {"name", "agree", "status"}

\* form fields as pdf-lib parses them, each kind with its defaults
ParsedFields ==
    {FormField(n, "PDFTextField", "dflt", FALSE, "") : n \in FieldNames}
    \cup {FormField(n, "PDFCheckBox", "", c, "") : n \in FieldNames, c \in BOOLEAN}
    \cup {FormField(n, k, "", FALSE, "dflt") :
            n \in FieldNames, k \in {"PDFDropdown", "PDFOptionList", "PDFRadioGroup"}}

SeqsUpTo(S, n) == UNION {[1..m -> S] : m \in 0..n}

\* form.getFields(): the field names of a form are distinct
FormModels ==
    {m \in SeqsUpTo(ParsedFields, MaxFields) :
        \A i, j \in 1..Len(m) : i # j => m[i].name # m[j].name}

\* what a snapshot can hold: some of the names, each with a control's value
ValueMaps ==
    UNION {[names -> {"On", "Off", "approved"}] : names \in SUBSET FieldNames}

InitApply ==
    /\ InitMachine
    /\ \E m \in FormModels, v \in ValueMaps :
          call = [op |-> "apply", formModel |-> m, valueMap |-> v,
                  returned |-> FALSE,
                  result |-> [fields |-> m, done |-> 0, threw |-> FALSE]]

CallApply ==
    /\ call.op = "apply"
    /\ ~call.returned
    /\ call' = [call EXCEPT !.returned = TRUE,
                            !.result = apply(call.formModel, call.valueMap)]
    /\ UNCHANGED machine

SpecApply == InitApply /\ [][CallApply]_vars

\* C7: after apply, every form-model field whose name is absent from the value
\* map is as it was parsed
C7_AbsentFieldUntouched ==
    (call.op = "apply" /\ call.returned) =>
        \A i \in 1..Len(call.formModel) :
            call.formModel[i].name \notin DOMAIN call.valueMap
                => call.result.fields[i] = call.formModel[i]

LiveControls ==
    {Control(1, n, "input", "text", text, FALSE, <<>>, 0) :
        n \in {"name", "agree"}, text \in TextValues}
    \cup {Control(1, n, "input", "checkbox", "Off", c, <<>>, 0) :
            n \in {"name", "agree"}, c \in BOOLEAN}
    \cup {Control(1, n, "select", "select-one", "", FALSE, <<"draft", "approved">>, o) :
            n \in {"name", "agree"}, o \in 1..2}

InitSnapshot ==
    /\ InitMachine
    /\ \E elements \in SeqsUpTo(LiveControls, MaxControls) :
          call = [op |-> "snapshot", elements |-> elements, returned |-> FALSE,
                  result |-> EmptyMap]

CallSnapshot ==
    /\ call.op = "snapshot"
    /\ ~call.returned
    /\ call' = [call EXCEPT !.returned = TRUE,
                            !.result = getAllFieldsValue(call.elements)]
    /\ UNCHANGED machine

SpecSnapshot == InitSnapshot /\ [][CallSnapshot]_vars

\* what the Field Value Map holds for one control
SnapshotValue(control) ==
    IF control.tag = "select" THEN control.options[control.selectedIndex]
    ELSE IF control.type = "checkbox" THEN (IF control.checked THEN "On" ELSE "Off")
    ELSE control.value

\* C9: the snapshot has exactly the names of the live controls, and each name
\* maps to the value of the last control, in scan order, that bears it
C9_SnapshotLastWins ==
    (call.op = "snapshot" /\ call.returned) =>
        /\ DOMAIN call.result = {call.elements[i].name : i \in 1..Len(call.elements)}
        /\ \A i \in 1..Len(call.elements) :
              (\A j \in (i + 1)..Len(call.elements) :
                    call.elements[j].name # call.elements[i].name)
                 => call.result[call.elements[i].name] = SnapshotValue(call.elements[i])

\* an unchecked checkbox "agree" and two text controls "name", the later one
\* holding "Alice", give {agree: "Off", name: "Alice"}
C9_Witness ==
    /\ call.op = "snapshot" /\ call.returned
    /\ Len(call.elements) = 3
    /\ call.elements[1].name = "agree" /\ call.elements[1].type = "checkbox"
    /\ ~call.elements[1].checked
    /\ call.elements[2].name = "name" /\ call.elements[2].value = ""
    /\ call.elements[2].type = "text"
    /\ call.elements[3].name = "name" /\ call.elements[3].value = "Alice"
    /\ call.elements[3].type = "text"
    /\ call.result = [n \in {"agree", "name"} |-> IF n = "agree" THEN "Off" ELSE "Alice"]

\* --------------------------------- resetViewScale, called on its own
\* how many steps of 25 pixels the container width of a resize takes
MaxWidthSteps == 120

\* the native widths maxPageWidth is captured from
PageWidths == {500, 612, 800}

InitResize ==
    /\ InitMachine
    /\ \E steps \in 1..MaxWidthSteps, width \in PageWidths, level \in 0..13 :
          call = [op |-> "resetViewScale", divWidth |-> steps * 25,
                  maxPageWidth |-> width, zoomLevel |-> level,
                  returned |-> FALSE, result |-> level]

CallResetViewScale ==
    /\ call.op = "resetViewScale"
    /\ ~call.returned
    /\ call' = [call EXCEPT !.returned = TRUE,
                            !.result = resetViewScale(call.divWidth, call.maxPageWidth,
                                                      call.zoomLevel)]
    /\ UNCHANGED machine

SpecResize == InitResize /\ [][CallResetViewScale]_vars

\* the distance of level j to the target divWidth / maxPageWidth, times
\* 100 * maxPageWidth
Distance(j) ==
    LET d == 100 * call.divWidth - zoomLevels[j + 1] * call.maxPageWidth
    IN IF d < 0 THEN -d ELSE d

\* C10: the zoom index selected on resize has a level no farther from the
\* target scale than any other level of the list
C10_ResizeSelectsNearest ==
    (call.op = "resetViewScale" /\ call.returned) =>
        \A j \in 0..(Len(zoomLevels) - 1) : Distance(call.result) <= Distance(j)

\* ------------------------------- the user in front of a loaded document
\* the component showing the document of source s at zoom index level: the
\* state after getDocument(s), getFieldObjects() and every getPage(i) have
\* resolved (the first pass captured maxPageWidth) and the user has brought
\* the zoom index to level
InitZoom ==
    \E s \in Sources, level \in 0..(Len(zoomLevels) - 1) :
        LET entries == [i \in 1..Documents[s].numPages |-> PageEntry(1, s, i)] IN
        /\ mounted = TRUE
        /\ src = s
        /\ loads = <<[src |-> s, status |-> "resolved"]>>
        /\ destroyed = {}
        /\ pdfDoc = 1
        /\ docReady = TRUE
        /\ pages = entries
        /\ pagesReady = TRUE
        /\ isSaving = FALSE
        /\ zoomLevel = level
        /\ maxPageWidth = MaxWidth(entries, 1)
        /\ cleanupDoc = NoDoc
        /\ cbMaxPageWidth = 0
        /\ pageLoads = EmptyBag
        /\ saves = <<>>
        /\ controls = RenderControls(TRUE, entries, {}, <<>>)
        /\ formFields = Expose(RenderControls(TRUE, entries, {}, <<>>))
        /\ lastPass = renderPages(entries, level, TRUE, {})
        /\ published = [doc |-> 1, started |-> 1, at |-> 1]
        /\ used = [srcChanges |-> 0, userActions |-> 0]
            /\ call = NoCall

NextZoom ==
    \/ ZoomIn
    \/ ZoomOut
    \/ \E offsetWidth \in DivWidths : Resize(offsetWidth)
    \/ \E k \in 1..Len(controls) : Edit(k)

SpecZoom == InitZoom /\ [][NextZoom]_vars

\* C11: the zoom index is always one of 0..N-1 for the N levels, and no zoom
\* in happens at index N-1 and no zoom out at index 0, so the index stays
C11_ZoomIndexInBounds ==
    /\ zoomLevel \in 0..(Len(zoomLevels) - 1)
    /\ zoomLevel = Len(zoomLevels) - 1 => ~ENABLED ZoomIn
    /\ zoomLevel = 0 => ~ENABLED ZoomOut

\* the index was brought to the last level by a zoom in or a resize and the
\* user can still click
C11_Witness ==
    /\ zoomLevel = Len(zoomLevels) - 1
    /\ lastPass.zoomLevel = Len(zoomLevels) - 1
    /\ used.userActions = 1
    /\ Shown(mounted, docReady, pagesReady)

\* ------------------------------ the page/field load, called on its own
\* the most descriptors getFieldObjects() reports in a single call
MaxDescriptors == 5

\* pdfDoc.numPages
PageCounts == {1, 2, 3}

\* what a descriptor can be: on one of three pages (the third page index is
\* past the end of a shorter document), shown or hidden, editable or not
DescriptorShapes ==
    {[page |-> p, editable |-> TRUE, hidden |-> FALSE] : p \in 0..2}
    \cup {[page |-> 0, editable |-> TRUE, hidden |-> TRUE],
          [page |-> 1, editable |-> FALSE, hidden |-> FALSE],
          [page |-> 2, editable |-> FALSE, hidden |-> TRUE]}

\* the i-th descriptor of the metadata, named by its place
Descriptor(i, shape) ==
    RawField(ToString(i), "text", shape.page, shape.editable, shape.hidden, "", <<>>)

\* the metadata as getFieldObjects() groups it: every key holds size
\* descriptors (the last one what is left)
RECURSIVE Grouped(_, _)
Grouped(rawFields, size) ==
    IF rawFields = <<>> THEN <<>>
    ELSE IF Len(rawFields) <= size THEN <<rawFields>>
    ELSE <<SubSeq(rawFields, 1, size)>>
         \o Grouped(SubSeq(rawFields, size + 1, Len(rawFields)), size)

InitLoad ==
    /\ InitMachine
    /\ \E m \in 0..MaxDescriptors, size \in {1, 2}, numPages \in PageCounts :
          \E shapes \in [1..m -> DescriptorShapes] :
             LET metadata == [i \in 1..m |-> Descriptor(i, shapes[i])] IN
             call = [op |-> "load", metadata |-> metadata,
                     rawFormFields |-> Grouped(metadata, size),
                     numPages |-> numPages, returned |-> FALSE, result |-> <<>>]

CallLoad ==
    /\ call.op = "load"
    /\ ~call.returned
    /\ call' = [call EXCEPT !.returned = TRUE,
                            !.result = LoadPages(call.rawFormFields, call.numPages,
                                                 1, <<>>)]
    /\ UNCHANGED machine

SpecLoad == InitLoad /\ [][CallLoad]_vars

\* the descriptors of the flattened metadata an entry of page p must hold
Surfaced(metadata, p) ==
    LET OnPage(d) == d.editable = TRUE /\ d.hidden = FALSE /\ d.page = p - 1
    IN SelectSeq(metadata, OnPage)

\* C12: a resolved load of a document of N pages yields N Page Entries, for
\* the pages 1..N in this order; the entry of page p holds the editable, not
\* hidden descriptors of page index p-1, in the order of the flattened
\* metadata, and no hidden or non-editable descriptor is in an entry
C12_EntriesPartitionFields ==
    (call.op = "load" /\ call.returned) =>
        /\ Len(call.result) = call.numPages
        /\ \A p \in 1..Len(call.result) :
              /\ call.result[p].pageNumber = p
              /\ call.result[p].fields = Surfaced(call.metadata, p)
              /\ \A f \in 1..Len(call.result[p].fields) :
                    /\ call.result[p].fields[f].editable
                    /\ ~call.result[p].fields[f].hidden

\* three pages, five editable and shown descriptors split 2/0/3 over the
\* pages, not in page order: the entries hold 2, 0 and 3 fields
C12_Witness ==
    /\ call.op = "load" /\ call.returned
    /\ call.numPages = 3
    /\ Len(call.metadata) = 5
    /\ \A i \in 1..5 : call.metadata[i].editable /\ ~call.metadata[i].hidden
    /\ call.metadata[1].page = 2 /\ call.metadata[2].page = 0
    /\ Len(call.rawFormFields) = 3
    /\ Len(call.result) = 3
    /\ Len(call.result[1].fields) = 2
    /\ Len(call.result[2].fields) = 0
    /\ Len(call.result[3].fields) = 3

\* ------------------------- the sink of onSaveAs, reached on its own
\* the snapshots handed on: of no control or of one
SmallValueMaps == {v \in ValueMaps : Cardinality(DOMAIN v) <= 1}

\* onSaveAs after libDoc.save() has resolved: the onSave prop supplied or
\* not, window.showSaveFilePicker there or not, any saved form, any snapshot
InitDeliver ==
    /\ InitMachine
    /\ \E hasOnSave, hasPicker \in BOOLEAN, m \in FormModels, v \in SmallValueMaps :
          call = [op |-> "deliver", hasOnSave |-> hasOnSave, hasPicker |-> hasPicker,
                  savedData |-> m, formFields |-> v, returned |-> FALSE,
                  result |-> {}]

CallDeliver ==
    /\ call.op = "deliver"
    /\ ~call.returned
    /\ call' = [call EXCEPT !.returned = TRUE,
                            !.result = Deliver(call.hasOnSave, call.hasPicker,
                                               call.savedData, call.formFields)]
    /\ UNCHANGED machine

SpecDeliver == InitDeliver /\ [][CallDeliver]_vars

\* C13: a save that got through serialization hands its result to one sink:
\* to onSave, with the serialized bytes and the snapshot, when the host
\* supplied it, and then to no platform save; else to the platform save, the
\* file picker when there is one and the download when there is none
C13_OneSink ==
    (call.op = "deliver" /\ call.returned) =>
        /\ Cardinality(call.result) = 1
        /\ call.hasOnSave =>
              call.result = {[sink |-> "onSave", pdfBytes |-> call.savedData,
                              formFields |-> call.formFields]}
        /\ ~call.hasOnSave =>
              \A c \in call.result :
                 /\ c.pdfBytes = call.savedData
                 /\ c.sink = IF call.hasPicker THEN "showSaveFilePicker"
                             ELSE "downloadPDF"

\* onSave is supplied in a browser that has the file picker, and a form of
\* two fields with a snapshot of one control was delivered to onSave
C13_Witness ==
    /\ call.op = "deliver" /\ call.returned
    /\ call.hasOnSave /\ call.hasPicker
    /\ Len(call.savedData) = 2
    /\ DOMAIN call.formFields = {"name"}
    /\ \E c \in call.result : c.sink = "onSave" /\ c.formFields = call.formFields

\* ------------------------- the overlay placement of a pass, on its own
\* the most field descriptors of a single call
MaxOverlay == 2

\* the style of an element nothing has placed yet (-1: no length is set)
Unplaced == [left |-> -1, top |-> -1, width |-> -1, height |-> -1]

\* page.fields?.find((field) => field.name === input.name): the place of
\* the first descriptor of that name, 0 when there is none
Find(fields, name) ==
    IF \E i \in 1..Len(fields) : fields[i].name = name
    THEN CHOOSE i \in 1..Len(fields) :
            fields[i].name = name /\ \A j \in 1..(i - 1) : fields[j].name # name
    ELSE 0

\* rect.map((x) => x * scale), rect being [llx, lly, urx, ury]; lengths are
\* in hundredths of a pixel, scale in hundredths
ScaleRect(rect, scale) == [i \in 1..4 |-> rect[i] * scale]

\* the four style assignments of one element
StyleOfNoFlip(rect, viewportHeight) ==
    [left |-> rect[1], top |-> rect[4], width |-> rect[3] - rect[1],
     height |-> rect[4] - rect[2]]

StyleOf(rect, viewportHeight) ==
    [left |-> rect[1], top |-> viewportHeight - rect[4],
     width |-> rect[3] - rect[1], height |-> rect[4] - rect[2]]

\* the body of the loop over the elements of a page container
PlaceControl(element, page, scale) ==
    LET f == Find(page.fields, element.name) IN
    IF f = 0 THEN element
    ELSE [element EXCEPT !.style = StyleOf(ScaleRect(page.fields[f].rect, scale),
                                           page.height * scale)]

\* pages.forEach of renderPages, from page p on: the elements of the
\* container of each page are placed, the others are not touched
RECURSIVE PlaceOverlays(_, _, _, _)
PlaceOverlays(pgs, p, elements, scale) ==
    IF p > Len(pgs) THEN elements
    ELSE PlaceOverlays(pgs, p + 1,
                       [k \in 1..Len(elements) |->
                          IF elements[k].page = pgs[p].pageNumber
                          THEN PlaceControl(elements[k], pgs[p], scale)
                          ELSE elements[k]],
                       scale)

\* the heights at scale 1.0 of the two pages of the document placed
PageHeights == <<792, 1000>>

\* the rects of the descriptors
Rects == {<<10, 20, 110, 40>>, <<50, 700, 250, 730>>}

\* a descriptor as the pass reads it (page is the index of its page, from 0)
PlacedFields ==
    {[name |-> n, page |-> pg - 1, rect |-> r] :
        n \in {"name", "agree"}, pg \in 1..Len(PageHeights), r \in Rects}

\* the entries of the pages, each with the descriptors of its page
EntriesOf(descriptors) ==
    [pg \in 1..Len(PageHeights) |->
        LET OnPage(d) == d.page = pg - 1 IN
        [pageNumber |-> pg, height |-> PageHeights[pg],
         fields |-> SelectSeq(descriptors, OnPage)]]

\* the elements of the page containers: one per descriptor of each page in
\* page order, and after them those of extra, which match no descriptor
ElementsOf(descriptors, extra, style) ==
    LET entries == EntriesOf(descriptors)
        all == entries[1].fields \o entries[2].fields
    IN [k \in 1..Len(all) |->
          [page |-> all[k].page + 1, name |-> all[k].name, style |-> style]]
       \o extra

InitPlace ==
    /\ InitMachine
    /\ \E descriptors \in SeqsUpTo(PlacedFields, MaxOverlay),
          level \in 0..(Len(zoomLevels) - 1),
          style \in {Unplaced, StyleOf(<<100, 200, 300, 400>>, 79200)} :
          \E extra \in {<<>>} \cup {<<[page |-> pg, name |-> "other", style |-> style]>> :
                                      pg \in 1..Len(PageHeights)} :
             call = [op |-> "place", pages |-> EntriesOf(descriptors),
                     elements |-> ElementsOf(descriptors, extra, style),
                     zoomLevel |-> level, returned |-> FALSE,
                     result |-> ElementsOf(descriptors, extra, style)]

CallPlace ==
    /\ call.op = "place"
    /\ ~call.returned
    /\ call' = [call EXCEPT !.returned = TRUE,
                            !.result = PlaceOverlays(call.pages, 1, call.elements,
                                                     zoomLevels[call.zoomLevel + 1])]
    /\ UNCHANGED machine

SpecPlace == InitPlace /\ [][CallPlace]_vars

\* C23: after a pass at scale s, every element whose name is that of a
\* descriptor of its page has left = rect.left * s, width = (rect.right -
\* rect.left) * s, height = (rect.top - rect.bottom) * s and top = the
\* viewport height of the page at s - rect.top * s, for a descriptor of that
\* name; an element whose name is that of no descriptor of its page is as it
\* was
C23_OverlayPlacement ==
    (call.op = "place" /\ call.returned) =>
        LET s == zoomLevels[call.zoomLevel + 1] IN
        /\ Len(call.result) = Len(call.elements)
        /\ \A k \in 1..Len(call.elements) :
              LET before == call.elements[k]
                  after == call.result[k]
                  page == call.pages[before.page]
                  named == {f \in 1..Len(page.fields) :
                              page.fields[f].name = before.name}
              IN IF named = {} THEN after = before
                 ELSE \E f \in named :
                         LET rect == page.fields[f].rect IN
                         /\ after.style.left = rect[1] * s
                         /\ after.style.width = (rect[3] - rect[1]) * s
                         /\ after.style.height = (rect[4] - rect[2]) * s
                         /\ after.style.top = page.height * s - rect[4] * s
                         /\ after.page = before.page /\ after.name = before.name

\* a pass at 1.25 placed an element of the second page 730 * 1.25 below the
\* top edge of its 1000 high page and left an element of no descriptor, on
\* the same page, with the style it had
C23_Witness ==
    /\ call.op = "place" /\ call.returned
    /\ zoomLevels[call.zoomLevel + 1] = 125
    /\ Len(call.elements) = 3
    /\ call.elements[2].page = 2
    /\ call.pages[2].fields[1].rect = <<50, 700, 250, 730>>
    /\ call.result[2].style.top = 125000 - 91250
    /\ call.elements[3].name = "other" /\ call.elements[3].page = 2
    /\ call.elements[3].style # Unplaced
    /\ call.result[3] = call.elements[3]

====
